---- MODULE Spec2Model ----
(***************************************************************************)
(* A model of the web server of wwwdaanlubbersnl:                          *)
(*   - src/src/concurrency.rs: ThreadPool, Worker, Drop for ThreadPool     *)
(*   - src/src/webserver.rs:   App::run (accept loop) and the request      *)
(*     dispatch App::handle_request .. App::handle_error                   *)
(* Spec         is the server: App::run feeding jobs to the ThreadPool.    *)
(* SpecDispatch is one call of App::handle_request on one connection.      *)
(***************************************************************************)
EXTENDS Integers, Sequences, FiniteSets, TLC

(***************************************************************************)
(* Bounds of the model.                                                    *)
(***************************************************************************)
\* the largest configured num_threads (pool sizes 0..MaxSize are explored)
MaxSize == 2
\* the largest number of connections the accept loop accepts
MaxJobs == 3

\* the largest number of routes registered with register_resource
MaxRoutes == 2
\* the largest number of lexemes of a request line
MaxLineLen == 3
\* the deepest nesting of calls below handle_request the stack has room for
MaxDepth == 8

WorkerIds == 0 .. (MaxSize - 1)
JobIds == 1 .. MaxJobs
\* Option<T>: None and Some(x)
None == <<>>
Some(x) == <<x>>
IsSome(o) == Len(o) = 1
Unwrap(o) == o[1]
\* no thread holds the mutex
NoThread == -1

VARIABLES
    \* ---- App::run and the ThreadPool (Spec) ----
    pc_main,        \* position of the thread that called App::run
    size,           \* self.config.num_threads, the argument of ThreadPool::new
    has_stop_flag,  \* stop_flag: Option<Arc<AtomicBool>> is Some
    stop_flag,      \* the value of the AtomicBool
    sender,         \* ThreadPool.sender: "unset", "Some" or "dropped"
    queue,          \* the mpsc channel: jobs sent and not yet received
    workers,        \* ThreadPool.workers: Vec<Worker>, records [id, thread]
    wstate,         \* per worker thread: its position in the closure of Worker::new
    wjob,           \* per worker thread: the job it received (0: none)
    lock_holder,    \* the thread holding the Mutex around the Receiver
    accepted,       \* number of connections listener.incoming() yielded Ok for
    submitted,      \* number of jobs sent by ThreadPool::execute
    runs,           \* per job: how many times job() was called
    ran_by,         \* per job: the workers that called job()
    done,           \* per job: "no", "returned" or "panicked"
    join_idx,       \* Drop: index into workers of the worker being joined
    \* ---- App and one call of App::handle_request (SpecDispatch) ----
    read_timeout,   \* App.config.read_timeout (seconds)
    resources,      \* App.resources: Vec<Resource>
    resource_404,   \* App.resource_404: Option<Resource>
    resource_500,   \* App.resource_500: Option<Resource>
    conn,           \* what the peer sent: the outcome of buf_reader.lines().next()
    pc,             \* the function being executed, or how handle_request ended
    stack,          \* the active calls below handle_request, innermost last
    written,        \* the buffers passed to stream.write_all, in order
    calls,          \* the calls of Resource::handle, in order
    lookups         \* number of calls of get_resource

pool_vars == <<pc_main, size, has_stop_flag, stop_flag, sender, queue, workers,
               wstate, wjob, lock_holder, accepted, submitted, runs, ran_by,
               done, join_idx>>

dispatch_vars == <<read_timeout, resources, resource_404, resource_500, conn, pc,
                   stack, written, calls, lookups>>

vars == <<pool_vars, dispatch_vars>>

(***************************************************************************)
(* ThreadPool and Worker (concurrency.rs)                                   *)
(***************************************************************************)

\* A worker thread is alive from its spawn until its closure ends or unwinds.
ThreadAlive(w) == wstate[w] \in {"lock", "recv", "received", "job"}

\* The Receiver lives in an Arc shared by the worker closures (and, during
\* ThreadPool::new, by the local `receiver`): it is dropped with the last one.
ReceiverAlive == \E w \in WorkerIds : ThreadAlive(w)

\* NewWorkers with the loop written `for id in 1..=size`
NewWorkers_FromOne(n) == [k \in 1 .. n |-> [id |-> k, thread |-> TRUE]]

\* for id in 0..size { workers.push(Worker::new(id, ..)) }
NewWorkers(n) == [k \in 1 .. n |-> [id |-> k - 1, thread |-> TRUE]]

InitPool ==
    /\ pc_main = "bind"
    /\ size \in 0 .. MaxSize
    /\ has_stop_flag \in BOOLEAN
    /\ stop_flag = FALSE
    /\ sender = "unset"
    /\ queue = <<>>
    /\ workers = <<>>
    /\ wstate = [w \in WorkerIds |-> "unspawned"]
    /\ wjob = [w \in WorkerIds |-> 0]
    /\ lock_holder = NoThread
    /\ accepted = 0
    /\ submitted = 0
    /\ runs = [j \in JobIds |-> 0]
    /\ ran_by = [j \in JobIds |-> {}]
    /\ done = [j \in JobIds |-> "no"]
    /\ join_idx = 0
    /\ read_timeout = 5
    /\ resources = <<>>
    /\ resource_404 = None
    /\ resource_500 = None
    /\ conn = [read |-> "eof", line |-> <<>>]
    /\ pc = "idle"
    /\ stack = <<>>
    /\ written = <<>>
    /\ calls = <<>>
    /\ lookups = 0

\* TcpListener::bind succeeds
Bind ==
    /\ pc_main = "bind"
    /\ pc_main' = "new"
    /\ UNCHANGED <<size, has_stop_flag, stop_flag, sender, queue, workers, wstate,
                   wjob, lock_holder, accepted, submitted, runs, ran_by, done, join_idx,
                   dispatch_vars>>

\* TcpListener::bind fails: panic!("Failed to bind ..")
BindFail ==
    /\ pc_main = "bind"
    /\ pc_main' = "bind_panicked"
    /\ UNCHANGED <<size, has_stop_flag, stop_flag, sender, queue, workers, wstate,
                   wjob, lock_holder, accepted, submitted, runs, ran_by, done, join_idx,
                   dispatch_vars>>

\* ThreadPoolNew without assert!(size > 0)
ThreadPoolNew_NoAssert ==
    /\ pc_main = "new"
    /\ pc_main' = "accept"
    /\ sender' = "Some"
    /\ workers' = NewWorkers(size)
    /\ wstate' = [w \in WorkerIds |-> IF w < size THEN "lock" ELSE wstate[w]]
    /\ UNCHANGED <<size, has_stop_flag, stop_flag, queue, wjob, lock_holder,
                   accepted, submitted, runs, ran_by, done, join_idx,
                   dispatch_vars>>

\* ThreadPool::new(size): assert!(size > 0), then the channel and the workers.
ThreadPoolNew ==
    /\ pc_main = "new"
    /\ IF ~(size > 0)
       THEN /\ pc_main' = "new_panicked"
            /\ UNCHANGED <<sender, workers, wstate>>
       ELSE /\ pc_main' = "accept"
            /\ sender' = "Some"
            /\ workers' = NewWorkers(size)
            /\ wstate' = [w \in WorkerIds |-> IF w < size THEN "lock" ELSE wstate[w]]
    /\ UNCHANGED <<size, has_stop_flag, stop_flag, queue, wjob, lock_holder,
                   accepted, submitted, runs, ran_by, done, join_idx,
                   dispatch_vars>>

\* ThreadPool::new(size) where thread::Builder::spawn fails for worker k:
\* panic!("Failed to create thread"); the unwinding drops the sender and
\* detaches the k threads already spawned.  No ThreadPool value exists.
ThreadPoolNewSpawnFail ==
    /\ pc_main = "new"
    /\ size > 0
    /\ \E k \in 0 .. (size - 1) :
          wstate' = [w \in WorkerIds |-> IF w < k THEN "lock" ELSE wstate[w]]
    /\ pc_main' = "new_panicked"
    /\ sender' = "dropped"
    /\ UNCHANGED <<size, has_stop_flag, stop_flag, queue, workers, wjob, lock_holder,
                   accepted, submitted, runs, ran_by, done, join_idx,
                   dispatch_vars>>

\* listener.incoming() yields Ok(stream)
Accept ==
    /\ pc_main = "accept"
    /\ accepted < MaxJobs
    /\ accepted' = accepted + 1
    /\ pc_main' = "execute"
    /\ UNCHANGED <<size, has_stop_flag, stop_flag, sender, queue, workers, wstate,
                   wjob, lock_holder, submitted, runs, ran_by, done, join_idx,
                   dispatch_vars>>

\* listener.incoming() yields Err(e): print!("Connection Failed")
AcceptErr ==
    /\ pc_main = "accept"
    /\ pc_main' = "check_stop"
    /\ UNCHANGED <<size, has_stop_flag, stop_flag, sender, queue, workers, wstate,
                   wjob, lock_holder, accepted, submitted, runs, ran_by, done, join_idx,
                   dispatch_vars>>

\* Execute on a bounded channel of capacity 1: send blocks while it is full
Execute_BoundedChannel ==
    /\ pc_main = "execute"
    /\ Len(queue) < 1
    /\ IF ReceiverAlive
       THEN /\ queue' = Append(queue, submitted + 1)
            /\ submitted' = submitted + 1
            /\ pc_main' = "check_stop"
            /\ UNCHANGED sender
       ELSE /\ pc_main' = "aborted"
            /\ sender' = "dropped"
            /\ UNCHANGED <<queue, submitted>>
    /\ UNCHANGED <<size, has_stop_flag, stop_flag, workers, wstate, wjob, lock_holder,
                   accepted, runs, ran_by, done, join_idx,
                   dispatch_vars>>

\* pool.execute(job): self.sender.as_ref().unwrap().send(job).unwrap().
\* send is Err once the Receiver is gone; the unwrap then panics inside run,
\* the unwinding drops the pool, and join().unwrap() on a panicked worker
\* panics again while panicking: the process aborts.
Execute ==
    /\ pc_main = "execute"
    /\ IF ReceiverAlive
       THEN /\ queue' = Append(queue, submitted + 1)
            /\ submitted' = submitted + 1
            /\ pc_main' = "check_stop"
            /\ UNCHANGED sender
       ELSE /\ pc_main' = "aborted"
            /\ sender' = "dropped"
            /\ UNCHANGED <<queue, submitted>>
    /\ UNCHANGED <<size, has_stop_flag, stop_flag, workers, wstate, wjob, lock_holder,
                   accepted, runs, ran_by, done, join_idx,
                   dispatch_vars>>

\* if let Some(stop_flag) = &stop_flag { if stop_flag.load(SeqCst) { break } }
CheckStop ==
    /\ pc_main = "check_stop"
    /\ pc_main' = IF has_stop_flag /\ stop_flag THEN "drop" ELSE "accept"
    /\ UNCHANGED <<size, has_stop_flag, stop_flag, sender, queue, workers, wstate,
                   wjob, lock_holder, accepted, submitted, runs, ran_by, done, join_idx,
                   dispatch_vars>>

\* SetStopFlag that also interrupts a blocked accept and ends the loop
SetStopFlag_InterruptsAccept ==
    /\ has_stop_flag
    /\ ~stop_flag
    /\ stop_flag' = TRUE
    /\ pc_main' = IF pc_main = "accept" THEN "drop" ELSE pc_main
    /\ UNCHANGED <<size, has_stop_flag, sender, queue, workers, wstate,
                   wjob, lock_holder, accepted, submitted, runs, ran_by, done, join_idx,
                   dispatch_vars>>

\* the owner of the flag stores true (stop_flag.store(true, SeqCst) in the tests)
SetStopFlag ==
    /\ has_stop_flag
    /\ ~stop_flag
    /\ stop_flag' = TRUE
    /\ UNCHANGED <<pc_main, size, has_stop_flag, sender, queue, workers, wstate,
                   wjob, lock_holder, accepted, submitted, runs, ran_by, done, join_idx,
                   dispatch_vars>>

\* Drop for ThreadPool, first statement: drop(self.sender.take())
DropSender ==
    /\ pc_main = "drop"
    /\ sender' = "dropped"
    /\ join_idx' = 1
    /\ pc_main' = IF Len(workers) = 0 THEN "returned" ELSE "join"
    /\ UNCHANGED <<size, has_stop_flag, stop_flag, queue, workers, wstate, wjob,
                   lock_holder, accepted, submitted, runs, ran_by, done,
                   dispatch_vars>>

\* Drop for ThreadPool, one iteration of the loop over the workers:
\* worker.thread.take() and thread.join().unwrap().  join blocks until the
\* thread has ended and is Err when it ended by a panic.
Join ==
    /\ pc_main = "join"
    /\ join_idx <= Len(workers)
    /\ LET w == workers[join_idx].id IN
       /\ ~ThreadAlive(w)
       /\ workers' = [workers EXCEPT ![join_idx].thread = FALSE]
       /\ IF wstate[w] = "panicked"
          THEN /\ pc_main' = "drop_panicked"
               /\ UNCHANGED join_idx
          ELSE /\ join_idx' = join_idx + 1
               /\ pc_main' = IF join_idx = Len(workers) THEN "returned" ELSE "join"
    /\ UNCHANGED <<size, has_stop_flag, stop_flag, sender, queue, wstate, wjob,
                   lock_holder, accepted, submitted, runs, ran_by, done,
                   dispatch_vars>>

\* WorkerLock that also starts the threads ThreadPool::new did not spawn
WorkerLock_StartsUnspawned(w) ==
    /\ wstate[w] \in {"lock", "unspawned"}
    /\ sender = "Some"
    /\ lock_holder = NoThread
    /\ lock_holder' = w
    /\ wstate' = [wstate EXCEPT ![w] = "recv"]
    /\ UNCHANGED <<pc_main, size, has_stop_flag, stop_flag, sender, queue, workers,
                   wjob, accepted, submitted, runs, ran_by, done, join_idx,
                   dispatch_vars>>

\* Worker closure: receiver.lock().unwrap() -- the mutex is acquired
WorkerLock(w) ==
    /\ wstate[w] = "lock"
    /\ lock_holder = NoThread
    /\ lock_holder' = w
    /\ wstate' = [wstate EXCEPT ![w] = "recv"]
    /\ UNCHANGED <<pc_main, size, has_stop_flag, stop_flag, sender, queue, workers,
                   wjob, accepted, submitted, runs, ran_by, done, join_idx,
                   dispatch_vars>>

\* Recv taking the message sent last
Recv_Newest(q) == [message |-> q[Len(q)], rest |-> SubSeq(q, 1, Len(q) - 1)]

\* Receiver::recv on a channel that holds messages: the message sent first
\* is taken out of the channel
Recv(q) == [message |-> Head(q), rest |-> Tail(q)]

\* WorkerRecv that keeps the MutexGuard while the job runs
WorkerRecv_KeepsLock(w) ==
    /\ wstate[w] = "recv"
    /\ lock_holder = w
    /\ queue # <<>>
    /\ queue' = Recv(queue).rest
    /\ wjob' = [wjob EXCEPT ![w] = Recv(queue).message]
    /\ wstate' = [wstate EXCEPT ![w] = "received"]
    /\ UNCHANGED <<pc_main, size, has_stop_flag, stop_flag, sender, workers,
                   lock_holder, accepted, submitted, runs, ran_by, done, join_idx,
                   dispatch_vars>>

\* Worker closure: let message = receiver.lock().unwrap().recv() returns
\* Ok(job); the guard is dropped at the end of the statement.
WorkerRecv(w) ==
    /\ wstate[w] = "recv"
    /\ lock_holder = w
    /\ queue # <<>>
    /\ queue' = Recv(queue).rest
    /\ wjob' = [wjob EXCEPT ![w] = Recv(queue).message]
    /\ lock_holder' = NoThread
    /\ wstate' = [wstate EXCEPT ![w] = "received"]
    /\ UNCHANGED <<pc_main, size, has_stop_flag, stop_flag, sender, workers,
                   accepted, submitted, runs, ran_by, done, join_idx,
                   dispatch_vars>>

\* Worker closure: match message { Ok(job) => { ..; job(); } }: the job that
\* was received is called, with the mutex released
JobStart(w) ==
    /\ wstate[w] = "received"
    /\ runs' = [runs EXCEPT ![wjob[w]] = @ + 1]
    /\ ran_by' = [ran_by EXCEPT ![wjob[w]] = @ \cup {w}]
    /\ wstate' = [wstate EXCEPT ![w] = "job"]
    /\ UNCHANGED <<pc_main, size, has_stop_flag, stop_flag, sender, queue, workers,
                   wjob, lock_holder, accepted, submitted, done, join_idx,
                   dispatch_vars>>

\* Worker closure: .recv() returns Err (channel empty and sender dropped): break
WorkerDisconnected(w) ==
    /\ wstate[w] = "recv"
    /\ lock_holder = w
    /\ queue = <<>>
    /\ sender = "dropped"
    /\ lock_holder' = NoThread
    /\ wstate' = [wstate EXCEPT ![w] = "exited"]
    /\ UNCHANGED <<pc_main, size, has_stop_flag, stop_flag, sender, queue, workers,
                   wjob, accepted, submitted, runs, ran_by, done, join_idx,
                   dispatch_vars>>

\* job() returns: the loop goes round
JobReturn(w) ==
    /\ wstate[w] = "job"
    /\ done' = [done EXCEPT ![wjob[w]] = "returned"]
    /\ wjob' = [wjob EXCEPT ![w] = 0]
    /\ wstate' = [wstate EXCEPT ![w] = "lock"]
    /\ UNCHANGED <<pc_main, size, has_stop_flag, stop_flag, sender, queue, workers,
                   lock_holder, accepted, submitted, runs, ran_by, join_idx,
                   dispatch_vars>>

\* JobPanic of a job that runs under the MutexGuard: the mutex is left
\* poisoned, no other thread acquires it again
JobPanic_PoisonsLock(w) ==
    /\ wstate[w] = "job"
    /\ done' = [done EXCEPT ![wjob[w]] = "panicked"]
    /\ wjob' = [wjob EXCEPT ![w] = 0]
    /\ wstate' = [wstate EXCEPT ![w] = "panicked"]
    /\ lock_holder' = w
    /\ UNCHANGED <<pc_main, size, has_stop_flag, stop_flag, sender, queue, workers,
                   accepted, submitted, runs, ran_by, join_idx,
                   dispatch_vars>>

\* job() panics: nothing in the closure catches it, the thread unwinds and ends
JobPanic(w) ==
    /\ wstate[w] = "job"
    /\ done' = [done EXCEPT ![wjob[w]] = "panicked"]
    /\ wjob' = [wjob EXCEPT ![w] = 0]
    /\ wstate' = [wstate EXCEPT ![w] = "panicked"]
    /\ UNCHANGED <<pc_main, size, has_stop_flag, stop_flag, sender, queue, workers,
                   lock_holder, accepted, submitted, runs, ran_by, join_idx,
                   dispatch_vars>>

Next ==
    \/ Bind
    \/ BindFail
    \/ ThreadPoolNew
    \/ ThreadPoolNewSpawnFail
    \/ Accept
    \/ AcceptErr
    \/ Execute
    \/ CheckStop
    \/ SetStopFlag
    \/ DropSender
    \/ Join
    \/ \E w \in WorkerIds : WorkerLock(w)
    \/ \E w \in WorkerIds : WorkerRecv(w)
    \/ \E w \in WorkerIds : WorkerDisconnected(w)
    \/ \E w \in WorkerIds : JobStart(w)
    \/ \E w \in WorkerIds : JobReturn(w)
    \/ \E w \in WorkerIds : JobPanic(w)

Spec == InitPool /\ [][Next]_vars

\* Scheduling: the operating system runs every thread that can take a step
\* (the main thread inside drop, and each worker thread), a free mutex is
\* acquired by a thread that keeps waiting for it, and every job that was
\* started terminates, by returning or by panicking.  Nothing is assumed of
\* the peers: connections need not arrive and the stop flag need not be set.
Fairness ==
    /\ WF_vars(DropSender)
    /\ WF_vars(Join)
    /\ \A w \in WorkerIds :
          /\ WF_vars(WorkerLock(w))
          /\ WF_vars(WorkerRecv(w))
          /\ WF_vars(WorkerDisconnected(w))
          /\ WF_vars(JobStart(w))
          /\ WF_vars(JobReturn(w) \/ JobPanic(w))

SpecFair == Spec /\ Fairness

(***************************************************************************)
(* Requests, routes and responses (webserver.rs)                           *)
(***************************************************************************)

\* enum RequestType
RequestType == {"GET", "POST", "PUT", "DELETE"}
\* enum StatusCode
StatusCode == {"OK", "NotFound", "InternalServerError", "PermanentRedirect"}
\* enum ResourceType
ResourceType == {"HTML", "IMAGE", "REDIRECT"}

\* impl Display for StatusCode
StatusLine(status) ==
    CASE status = "OK" -> "HTTP/1.1 200 OK"
      [] status = "NotFound" -> "HTTP/1.1 404 NOT FOUND"
      [] status = "InternalServerError" -> "HTTP/1.1 500 INTERNAL SERVER ERROR"
      [] status = "PermanentRedirect" -> "HTTP/1.1 301 PERMANENT REDIRECT"

\* The file system the handlers' paths are read from: path -> bytes of the file.
\* A path outside the domain does not exist.
Files ==
    [p \in {"test.html", "test.jpg", "404.html", "500.html"} |->
        CASE p = "test.html" -> <<60, 195, 169, 62>>
          [] p = "test.jpg" -> <<255, 216, 255>>
          [] p = "404.html" -> <<52, 48, 52>>
          [] p = "500.html" -> <<53, 48>>]

\* fs::read(path): Ok(bytes) or Err
FsRead(path) == IF path \in DOMAIN Files THEN Some(Files[path]) ELSE None

\* core::str::from_utf8: the well-formed UTF-8 byte sequences
RECURSIVE Utf8Valid(_)
Utf8Valid(b) ==
    LET Cont(i) == Len(b) >= i /\ b[i] >= 128 /\ b[i] <= 191
        In(i, lo, hi) == Len(b) >= i /\ b[i] >= lo /\ b[i] <= hi
        Rest(n) == Utf8Valid(SubSeq(b, n + 1, Len(b)))
    IN  IF b = <<>> THEN TRUE
        ELSE CASE b[1] <= 127 -> Rest(1)
               [] b[1] >= 194 /\ b[1] <= 223 -> Cont(2) /\ Rest(2)
               [] b[1] = 224 -> In(2, 160, 191) /\ Cont(3) /\ Rest(3)
               [] (b[1] >= 225 /\ b[1] <= 236) \/ b[1] \in {238, 239} ->
                      Cont(2) /\ Cont(3) /\ Rest(3)
               [] b[1] = 237 -> In(2, 128, 159) /\ Cont(3) /\ Rest(3)
               [] b[1] = 240 -> In(2, 144, 191) /\ Cont(3) /\ Cont(4) /\ Rest(4)
               [] b[1] >= 241 /\ b[1] <= 243 -> Cont(2) /\ Cont(3) /\ Cont(4) /\ Rest(4)
               [] b[1] = 244 -> In(2, 128, 143) /\ Cont(3) /\ Cont(4) /\ Rest(4)
               [] OTHER -> FALSE

\* fs::read_to_string(path): Ok(content) when the file exists and is UTF-8.
\* A String holds the validated bytes, so content.len() is the byte length.
FsReadToString(path) ==
    IF IsSome(FsRead(path)) /\ Utf8Valid(Unwrap(FsRead(path)))
    THEN FsRead(path) ELSE None

\* a handler fn() -> Result<Response, String>, given by the value it returns
HandlerOk(status, path) == [ok |-> TRUE, status_code |-> status, path |-> path]
HandlerErr == [ok |-> FALSE, status_code |-> "", path |-> ""]

\* Resource::new
Resource(request_type, path, resource_type, handler) ==
    [request_type |-> request_type, path |-> path,
     resource_type |-> resource_type, handler |-> handler]

\* Resource::handle: (self.handler)()
Handle(resource) == resource.handler

\* str::split_whitespace over a line given as lexemes: the maximal runs of
\* non-whitespace lexemes, each run joined into one token
IsWhitespace(c) == c \in {" ", "\t", "\r", "\n"}

RECURSIVE SplitFrom(_, _, _)
SplitFrom(line, cur, acc) ==
    IF line = <<>>
    THEN IF cur = "" THEN acc ELSE Append(acc, cur)
    ELSE IF IsWhitespace(Head(line))
         THEN SplitFrom(Tail(line), "", IF cur = "" THEN acc ELSE Append(acc, cur))
         ELSE SplitFrom(Tail(line), cur \o Head(line), acc)

SplitWhitespace(line) == SplitFrom(line, "", <<>>)

\* ParseRequestType as in the older lib.rs: an unknown method is taken as GET
ParseRequestType_UnknownIsGet(token) ==
    IF token \in RequestType THEN Some(token) ELSE Some("GET")

\* match parts[0] { "GET" => .., "POST" => .., "PUT" => .., "DELETE" => .., _ => return }
ParseRequestType(token) == IF token \in RequestType THEN Some(token) ELSE None

\* App::get_resource: iter().find(..), the index of the first match or 0
RECURSIVE FindFrom(_, _, _)
FindFrom(k, request_type, path) ==
    IF k > Len(resources) THEN 0
    ELSE IF resources[k].request_type = request_type /\ resources[k].path = path
         THEN k
         ELSE FindFrom(k + 1, request_type, path)

\* GetResource returning the last registered match instead of the first
GetResource_LastMatch(request_type, path) ==
    LET found == { k \in 1 .. Len(resources) :
                     /\ resources[k].request_type = request_type
                     /\ resources[k].path = path }
    IN  IF found = {} THEN 0 ELSE CHOOSE k \in found : \A i \in found : i <= k

GetResource(request_type, path) == FindFrom(1, request_type, path)

\* ContentResponse with the length counted in characters (the bytes that
\* are not UTF-8 continuation bytes) instead of bytes
ContentResponse_CharLength(status, content) ==
    [head |-> StatusLine(status) \o "\r\nContent-Length: "
                \o ToString(Cardinality({ i \in 1 .. Len(content) :
                                             content[i] < 128 \/ content[i] > 191 }))
                \o "\r\n\r\n",
     body |-> content]

\* format!("{status}\r\nContent-Length: {length}\r\n\r\n{content}") and, for
\* an image, [response.as_bytes(), &content].concat(): head then body bytes
ContentResponse(status, content) ==
    [head |-> StatusLine(status) \o "\r\nContent-Length: " \o ToString(Len(content))
                \o "\r\n\r\n",
     body |-> content]

\* RedirectResponse without the Location header
RedirectResponse_NoLocation(status, path) ==
    [head |-> StatusLine(status) \o "\r\nContent-Length: 0\r\n\r\n", body |-> <<>>]

\* format!("{status}\r\nLocation: {path}\r\nContent-Length: 0\r\n\r\n")
RedirectResponse(status, path) ==
    [head |-> StatusLine(status) \o "\r\nLocation: " \o path
                \o "\r\nContent-Length: 0\r\n\r\n",
     body |-> <<>>]

\* NotFoundResponse without the Content-Length header
NotFoundResponse_NoLength ==
    [head |-> StatusLine("NotFound") \o "\r\n\r\n", body |-> <<>>]

\* format!("{}\r\nContent-Length: 0\r\n\r\n", StatusCode::NotFound)
NotFoundResponse ==
    [head |-> StatusLine("NotFound") \o "\r\nContent-Length: 0\r\n\r\n", body |-> <<>>]

\* ErrorResponse with the status of NotFoundResponse
ErrorResponse_NotFound ==
    [head |-> StatusLine("NotFound") \o "\r\nContent-Length: 0\r\n\r\n", body |-> <<>>]

\* format!("{}\r\nContent-Length: 0\r\n\r\n", StatusCode::InternalServerError)
ErrorResponse ==
    [head |-> StatusLine("InternalServerError") \o "\r\nContent-Length: 0\r\n\r\n",
     body |-> <<>>]

(***************************************************************************)
(* The inputs of SpecDispatch                                              *)
(***************************************************************************)

\* the values handlers return (those of main.rs and of the tests, and a
\* response naming a file that does not exist)
HandlerResults ==
    { HandlerErr,
      HandlerOk("OK", "test.html"),
      HandlerOk("OK", "test.jpg"),
      HandlerOk("OK", "missing.html"),
      HandlerOk("NotFound", "404.html"),
      HandlerOk("InternalServerError", "500.html"),
      HandlerOk("PermanentRedirect", "https://example.com") }

\* lexemes of request lines
Lexemes == {" ", "GET", "FOO", "/", "/a"}

RECURSIVE SeqsUpTo(_, _)
SeqsUpTo(S, n) ==
    IF n = 0 THEN {<<>>}
    ELSE LET shorter == SeqsUpTo(S, n - 1)
         IN  shorter \cup {Append(q, x) : q \in {r \in shorter : Len(r) = n - 1}, x \in S}

\* outcome of buf_reader.lines().next(): None, Some(Err(e)) or Some(Ok(line))
ReadLine(line) == [read |-> "line", line |-> line]
ReadEof == [read |-> "eof", line |-> <<>>]
ReadErr == [read |-> "err", line |-> <<>>]

\* Inputs for parsing and lookup: any request line of up to MaxLineLen lexemes
\* against any table of up to MaxRoutes routes, among them routes with the
\* same key, with the same path under another method, and with another path.
LookupRoutes ==
    { Resource("GET", "/", "HTML", HandlerOk("OK", "test.html")),
      Resource("GET", "/", "REDIRECT", HandlerOk("PermanentRedirect", "https://example.com")),
      Resource("POST", "/", "HTML", HandlerOk("OK", "test.html")),
      Resource("GET", "/a", "REDIRECT", HandlerOk("PermanentRedirect", "https://example.com")) }

InitLookup ==
    /\ read_timeout \in {0, 5}
    /\ resources \in SeqsUpTo(LookupRoutes, MaxRoutes)
    /\ resource_404 \in {None, Some(Resource("GET", "/404", "HTML",
                                              HandlerOk("NotFound", "404.html")))}
    /\ resource_500 = None
    /\ conn \in {ReadEof, ReadErr} \cup {ReadLine(l) : l \in SeqsUpTo(Lexemes, MaxLineLen)}

\* Inputs for dispatch and fallback: one route of any kind and handler, any
\* NotFoundRoute and ErrorRoute, and well-formed requests that match or not.
FallbackRoutes ==
    { Resource("GET", "/a", k, h) : k \in ResourceType, h \in HandlerResults }

InitFallback ==
    /\ read_timeout = 5
    /\ resources \in { <<Resource("GET", "/", k, h)>> : k \in ResourceType, h \in HandlerResults }
    /\ resource_404 \in {None} \cup {Some(r) : r \in FallbackRoutes}
    /\ resource_500 \in {None} \cup {Some(r) : r \in FallbackRoutes}
    /\ conn \in { ReadLine(<<m, " ", p>>) : m \in RequestType, p \in {"/", "/a"} }

\* the pool is not part of SpecDispatch
PoolIdle ==
    /\ pc_main = "idle"
    /\ size = 0
    /\ has_stop_flag = FALSE
    /\ stop_flag = FALSE
    /\ sender = "unset"
    /\ queue = <<>>
    /\ workers = <<>>
    /\ wstate = [w \in WorkerIds |-> "unspawned"]
    /\ wjob = [w \in WorkerIds |-> 0]
    /\ lock_holder = NoThread
    /\ accepted = 0
    /\ submitted = 0
    /\ runs = [j \in JobIds |-> 0]
    /\ ran_by = [j \in JobIds |-> {}]
    /\ done = [j \in JobIds |-> "no"]
    /\ join_idx = 0

InitDispatch ==
    /\ PoolIdle
    /\ InitLookup \/ InitFallback
    /\ pc = "handle_request"
    /\ stack = <<>>
    /\ written = <<>>
    /\ calls = <<>>
    /\ lookups = 0

(***************************************************************************)
(* App::handle_request and the functions it calls (webserver.rs)           *)
(***************************************************************************)

Terminal == {"Sent", "WriteFailed", "Drop", "Panicked", "StackOverflow"}

\* a call: the function and its arguments
Frame(fn, origin, index, resource, path, status) ==
    [fn |-> fn, origin |-> origin, index |-> index, resource |-> resource,
     path |-> path, status |-> status]

Top == stack[Len(stack)]

\* self.<fn>(..) as the last thing the running function does
Call(frame) ==
    /\ pc' = frame.fn
    /\ stack' = Append(stack, frame)

\* WriteAll where a failed write is followed by handle_error
WriteAll_ErrorAfterFailedWrite(response) ==
    /\ written' = Append(written, response)
    /\ \E ok \in BOOLEAN :
          IF ok
          THEN pc' = "Sent" /\ stack' = <<>>
          ELSE Call(Frame("handle_error", "", 0, None, "", ""))

\* stream.write_all(response) and the return of every active call:
\* Ok(()) or Err(e) with print!("Failed to write to stream")
WriteAll(response) ==
    /\ written' = Append(written, response)
    /\ \E ok \in BOOLEAN : pc' = IF ok THEN "Sent" ELSE "WriteFailed"
    /\ stack' = <<>>

\* return without writing
Return ==
    /\ pc' = "Drop"
    /\ stack' = <<>>
    /\ UNCHANGED written

\* HandleRequest where a line of fewer than two tokens is sent to
\* handle_not_found instead of returning
HandleRequest_MalformedIs404 ==
    /\ pc = "handle_request"
    /\ stack = <<>>
    /\ IF read_timeout = 0
       THEN /\ pc' = "Panicked"
            /\ UNCHANGED <<stack, written, lookups>>
       ELSE IF conn.read # "line"
       THEN Return /\ UNCHANGED lookups
       ELSE LET parts == SplitWhitespace(conn.line) IN
            IF Len(parts) < 2
            THEN /\ Call(Frame("handle_not_found", "", 0, None, "", ""))
                 /\ UNCHANGED <<written, lookups>>
            ELSE LET request_type == ParseRequestType(parts[1])
                     path == parts[2]
                 IN  IF ~IsSome(request_type)
                     THEN Return /\ UNCHANGED lookups
                     ELSE LET k == GetResource(Unwrap(request_type), path) IN
                          /\ lookups' = lookups + 1
                          /\ UNCHANGED written
                          /\ IF k # 0
                             THEN Call(Frame("handle_resource", "resources", k,
                                             Some(resources[k]), "", ""))
                             ELSE Call(Frame("handle_not_found", "", 0, None, "", ""))
    /\ UNCHANGED <<read_timeout, resources, resource_404, resource_500, conn, calls>>
    /\ UNCHANGED pool_vars

\* App::handle_request up to its call of handle_resource or handle_not_found
HandleRequest ==
    /\ pc = "handle_request"
    /\ stack = <<>>
    /\ IF read_timeout = 0
       THEN \* set_read_timeout(Some(Duration::ZERO)) is Err: unwrap panics
            /\ pc' = "Panicked"
            /\ UNCHANGED <<stack, written, lookups>>
       ELSE IF conn.read # "line"
       THEN Return /\ UNCHANGED lookups
       ELSE LET parts == SplitWhitespace(conn.line) IN
            IF Len(parts) < 2
            THEN Return /\ UNCHANGED lookups
            ELSE LET request_type == ParseRequestType(parts[1])
                     path == parts[2]
                 IN  IF ~IsSome(request_type)
                     THEN Return /\ UNCHANGED lookups
                     ELSE LET k == GetResource(Unwrap(request_type), path) IN
                          /\ lookups' = lookups + 1
                          /\ UNCHANGED written
                          /\ IF k # 0
                             THEN Call(Frame("handle_resource", "resources", k,
                                             Some(resources[k]), "", ""))
                             ELSE Call(Frame("handle_not_found", "", 0, None, "", ""))
    /\ UNCHANGED <<read_timeout, resources, resource_404, resource_500, conn, calls>>
    /\ UNCHANGED pool_vars

\* the name of the function that encodes a resource type
Encoder(resource_type) ==
    CASE resource_type = "HTML" -> "handle_html"
      [] resource_type = "IMAGE" -> "handle_image"
      [] resource_type = "REDIRECT" -> "handle_redirect"

\* App::handle_resource(resource, stream)
HandleResource ==
    /\ pc = "handle_resource"
    /\ Len(stack) < MaxDepth
    /\ LET resource == Unwrap(Top.resource)
           first == Handle(resource)
           this_call == [origin |-> Top.origin, index |-> Top.index]
           call_500 == [origin |-> "resource_500", index |-> 0]
       IN  IF first.ok
           THEN /\ calls' = Append(calls, this_call)
                /\ Call(Frame(Encoder(resource.resource_type), "", 0, None,
                              first.path, first.status_code))
           ELSE IF IsSome(resource_500)
           THEN LET second == Handle(Unwrap(resource_500)) IN
                /\ calls' = calls \o <<this_call, call_500>>
                /\ IF second.ok
                   THEN Call(Frame(Encoder(resource.resource_type), "", 0, None,
                                   second.path, second.status_code))
                   ELSE Call(Frame("handle_error", "", 0, None, "", ""))
           ELSE /\ calls' = Append(calls, this_call)
                /\ Call(Frame("handle_error", "", 0, None, "", ""))
    /\ UNCHANGED <<read_timeout, resources, resource_404, resource_500, conn, written,
                   lookups>>
    /\ UNCHANGED pool_vars

\* FileMissing that goes to handle_error
FileMissing_ToError ==
    Call(Frame("handle_error", "", 0, None, "", ""))

\* the Err(_) arm of handle_html and of handle_image
FileMissing ==
    IF IsSome(resource_404)
    THEN Call(Frame("handle_resource", "resource_404", 0, resource_404, "", ""))
    ELSE Call(Frame("handle_not_found", "", 0, None, "", ""))

\* App::handle_html(path, status, stream)
HandleHtml ==
    /\ pc = "handle_html"
    /\ Len(stack) < MaxDepth
    /\ LET content == FsReadToString(Top.path) IN
       IF IsSome(content)
       THEN WriteAll(ContentResponse(Top.status, Unwrap(content)))
       ELSE FileMissing /\ UNCHANGED written
    /\ UNCHANGED <<read_timeout, resources, resource_404, resource_500, conn, calls,
                   lookups>>
    /\ UNCHANGED pool_vars

\* App::handle_image(path, status, stream)
HandleImage ==
    /\ pc = "handle_image"
    /\ Len(stack) < MaxDepth
    /\ LET content == FsRead(Top.path) IN
       IF IsSome(content)
       THEN WriteAll(ContentResponse(Top.status, Unwrap(content)))
       ELSE FileMissing /\ UNCHANGED written
    /\ UNCHANGED <<read_timeout, resources, resource_404, resource_500, conn, calls,
                   lookups>>
    /\ UNCHANGED pool_vars

\* HandleRedirect with the status line fixed to 301
HandleRedirect_Always301 ==
    /\ pc = "handle_redirect"
    /\ WriteAll(RedirectResponse("PermanentRedirect", Top.path))
    /\ UNCHANGED <<read_timeout, resources, resource_404, resource_500, conn, calls,
                   lookups>>
    /\ UNCHANGED pool_vars

\* App::handle_redirect(path, status, stream)
HandleRedirect ==
    /\ pc = "handle_redirect"
    /\ WriteAll(RedirectResponse(Top.status, Top.path))
    /\ UNCHANGED <<read_timeout, resources, resource_404, resource_500, conn, calls,
                   lookups>>
    /\ UNCHANGED pool_vars

\* HandleNotFound that always writes the built-in reply
HandleNotFound_BuiltInOnly ==
    /\ pc = "handle_not_found"
    /\ Len(stack) < MaxDepth
    /\ WriteAll(NotFoundResponse)
    /\ UNCHANGED <<read_timeout, resources, resource_404, resource_500, conn, calls,
                   lookups>>
    /\ UNCHANGED pool_vars

\* App::handle_not_found(stream)
HandleNotFound ==
    /\ pc = "handle_not_found"
    /\ Len(stack) < MaxDepth
    /\ IF IsSome(resource_404)
       THEN /\ Call(Frame("handle_resource", "resource_404", 0, resource_404, "", ""))
            /\ UNCHANGED written
       ELSE WriteAll(NotFoundResponse)
    /\ UNCHANGED <<read_timeout, resources, resource_404, resource_500, conn, calls,
                   lookups>>
    /\ UNCHANGED pool_vars

\* App::handle_error(stream)
HandleError ==
    /\ pc = "handle_error"
    /\ Len(stack) < MaxDepth
    /\ IF IsSome(resource_500)
       THEN /\ Call(Frame("handle_resource", "resource_500", 0, resource_500, "", ""))
            /\ UNCHANGED written
       ELSE WriteAll(ErrorResponse)
    /\ UNCHANGED <<read_timeout, resources, resource_404, resource_500, conn, calls,
                   lookups>>
    /\ UNCHANGED pool_vars

\* The calls never return and nest without end: the thread's stack is
\* exhausted at the next call and the process is aborted.
StackOverflow ==
    /\ pc \in {"handle_resource", "handle_html", "handle_image", "handle_not_found",
               "handle_error"}
    /\ Len(stack) = MaxDepth
    /\ pc' = "StackOverflow"
    /\ UNCHANGED <<read_timeout, resources, resource_404, resource_500, conn, stack,
                   written, calls, lookups>>
    /\ UNCHANGED pool_vars

NextDispatch ==
    \/ HandleRequest
    \/ HandleResource
    \/ HandleHtml
    \/ HandleImage
    \/ HandleRedirect
    \/ HandleNotFound
    \/ HandleError
    \/ StackOverflow

SpecDispatch == InitDispatch /\ [][NextDispatch]_vars

(***************************************************************************)
(* The stack bound does not cut a finite chain of calls short: a stack     *)
(* that overflows holds the same call twice, and a call repeated with the  *)
(* same arguments repeats for ever.                                        *)
(***************************************************************************)
StackOverflowDiverges ==
    pc = "StackOverflow" =>
        \E i, j \in 1 .. Len(stack) : i < j /\ stack[i] = stack[j]

(***************************************************************************)
(* Properties of the ThreadPool (checked under Spec)                       *)
(***************************************************************************)

\* the pool has been dropped: Drop::drop was entered and control has left it
PoolDropped == pc_main \in {"returned", "drop_panicked"}

\* C1: every submitted job is run exactly once and by exactly one worker: no
\* job is ever run twice or by two workers, and once the pool has been
\* dropped and no worker thread is left, no submitted job is left unrun.
C1_EachJobRunExactlyOnce ==
    /\ \A j \in JobIds : runs[j] <= 1 /\ Cardinality(ran_by[j]) <= 1
    /\ (PoolDropped /\ ~ReceiverAlive) => \A j \in 1 .. submitted : runs[j] = 1

\* C2: when control has left the drop of the pool, every job submitted
\* before it has finished running, no job is left in the queue, and every
\* worker thread has ended.
C2_DropWaitsForAllJobs ==
    PoolDropped =>
        /\ \A j \in 1 .. submitted : done[j] # "no"
        /\ queue = <<>>
        /\ \A w \in WorkerIds : ~ThreadAlive(w)

\* C3: with a pool size of 0, ThreadPool::new panics: no worker thread is
\* ever spawned, no sender exists, no job is submitted, and App::run never
\* accepts a connection.
C3_ZeroSizePanicsFirst ==
    size = 0 =>
        /\ pc_main \in {"bind", "bind_panicked", "new", "new_panicked"}
        /\ \A w \in WorkerIds : wstate[w] = "unspawned"
        /\ workers = <<>>
        /\ sender = "unset"
        /\ accepted = 0
        /\ submitted = 0

C3_Witness == size = 0 /\ pc_main = "new_panicked"

\* the ThreadPool value exists: ThreadPool::new has returned
PoolConstructed ==
    pc_main \in {"accept", "execute", "check_stop", "drop", "join", "returned",
                 "drop_panicked", "aborted"}

\* C4: once ThreadPool::new(size) has returned, the pool owns exactly `size`
\* workers with the ids 0..size-1 in order, each with a spawned thread of its
\* own, whose handle it holds until drop joins it; before that it owns none.
C4_WorkersFixed ==
    IF PoolConstructed
    THEN /\ size >= 1
         /\ Len(workers) = size
         /\ \A k \in 1 .. Len(workers) :
               /\ workers[k].id = k - 1
               /\ workers[k].id \in WorkerIds
               /\ wstate[workers[k].id] # "unspawned"
               /\ (pc_main \in {"accept", "execute", "check_stop", "drop"}
                      => workers[k].thread)
    ELSE workers = <<>>

C4_Witness == size >= 2 /\ pc_main = "returned" /\ submitted >= 1

\* C5: a worker thread ends only because the job channel was closed: while
\* the sender exists no worker thread has ended, whatever its jobs did.
C5_WorkerSurvivesJobPanic ==
    \A w \in WorkerIds :
        wstate[w] \in {"exited", "panicked"} => sender = "dropped"

(***************************************************************************)
(* Properties of the request dispatch (checked under SpecDispatch)         *)
(***************************************************************************)

\* the tokens of the request line
RequestParts == SplitWhitespace(conn.line)

\* the request line was read and has a method token and a path token
WellFormed ==
    /\ read_timeout # 0
    /\ conn.read = "line"
    /\ Len(RequestParts) >= 2
    /\ RequestParts[1] \in {"GET", "POST", "PUT", "DELETE"}

\* the indices of the registered routes with the request's method and path
Matching ==
    { k \in 1 .. Len(resources) :
        /\ resources[k].request_type = RequestParts[1]
        /\ resources[k].path = RequestParts[2] }

Answered == pc \in {"Sent", "WriteFailed"}

\* C6: a well-formed request that matches no registered route, with no
\* NotFoundRoute registered, is answered by one write of exactly
\* "HTTP/1.1 404 NOT FOUND\r\nContent-Length: 0\r\n\r\n", and no handler is
\* called.
C6_BuiltIn404 ==
    (WellFormed /\ Matching = {} /\ resource_404 = None) =>
        /\ calls = <<>>
        /\ pc \in Terminal => Answered
        /\ written = IF Answered
                     THEN << [head |-> "HTTP/1.1 404 NOT FOUND\r\nContent-Length: 0\r\n\r\n",
                              body |-> <<>>] >>
                     ELSE <<>>

C6_Witness ==
    /\ WellFormed /\ Matching = {} /\ resource_404 = None
    /\ resources # <<>>
    /\ RequestParts[1] = "POST"
    /\ pc = "Sent"

\* the matched route: the first registered route with the request's key
Matched == resources[CHOOSE k \in Matching : \A i \in Matching : k <= i]

\* C7: a request matching a route whose handler returns Err, with no
\* ErrorRoute registered, is answered by one write of exactly
\* "HTTP/1.1 500 INTERNAL SERVER ERROR\r\nContent-Length: 0\r\n\r\n", for
\* every response kind of the route.
C7_BuiltIn500 ==
    (WellFormed /\ Matching # {} /\ ~Matched.handler.ok /\ resource_500 = None) =>
        /\ pc \in Terminal => Answered
        /\ written = IF Answered
                     THEN << [head |-> "HTTP/1.1 500 INTERNAL SERVER ERROR\r\nContent-Length: 0\r\n\r\n",
                              body |-> <<>>] >>
                     ELSE <<>>

C7_Witness ==
    /\ WellFormed /\ Matching # {} /\ ~Matched.handler.ok /\ resource_500 = None
    /\ Matched.resource_type = "REDIRECT"
    /\ IsSome(resource_404)
    /\ pc = "Sent"

\* C8: with a page-kind NotFoundRoute whose handler returns Ok(S, F) and F
\* readable as text, a well-formed request that matches no regular route is
\* answered by one write of S's status line, a Content-Length of F's byte
\* length and F's bytes, whatever method and path the NotFoundRoute was
\* registered with, and the only handler called is the NotFoundRoute's.
C8_NotFoundRoutePage ==
    (/\ WellFormed /\ Matching = {}
     /\ IsSome(resource_404)
     /\ Unwrap(resource_404).resource_type = "HTML"
     /\ Unwrap(resource_404).handler.ok
     /\ Unwrap(resource_404).handler.path \in DOMAIN Files
     /\ Utf8Valid(Files[Unwrap(resource_404).handler.path])) =>
        LET S == Unwrap(resource_404).handler.status_code
            F == Files[Unwrap(resource_404).handler.path]
        IN  /\ pc \in Terminal => Answered
            /\ Answered => calls = << [origin |-> "resource_404", index |-> 0] >>
            /\ written = IF Answered
                         THEN << [head |-> StatusLine(S) \o "\r\nContent-Length: "
                                            \o ToString(Len(F)) \o "\r\n\r\n",
                                  body |-> F] >>
                         ELSE <<>>

C8_Witness ==
    /\ WellFormed /\ Matching = {}
    /\ resources # <<>>
    /\ RequestParts[1] = "PUT"
    /\ resource_404 = Some(Resource("GET", "/a", "HTML", HandlerOk("NotFound", "404.html")))
    /\ pc = "Sent"
    /\ written = << [head |-> "HTTP/1.1 404 NOT FOUND\r\nContent-Length: 3\r\n\r\n",
                     body |-> <<52, 48, 52>>] >>

\* the reply C9 names, for the locator L
Redirect301(L) ==
    [head |-> "HTTP/1.1 301 PERMANENT REDIRECT\r\nLocation: " \o L
                \o "\r\nContent-Length: 0\r\n\r\n",
     body |-> <<>>]

\* C9 as stated: a request matching a redirect-kind route whose handler
\* returns a Response with locator L is answered with exactly the 301 reply
\* for L, whatever status code the Response carries.
C9_RedirectAlways301 ==
    (/\ WellFormed /\ Matching # {}
     /\ Matched.resource_type = "REDIRECT"
     /\ Matched.handler.ok
     /\ Answered) =>
        written = << Redirect301(Matched.handler.path) >>

\* C9 as amended: a request matching a redirect-kind route whose handler
\* returns a Response with status PermanentRedirect and locator L is
\* answered by one write of exactly the 301 reply for L, with no body.
C9_Redirect301 ==
    (/\ WellFormed /\ Matching # {}
     /\ Matched.resource_type = "REDIRECT"
     /\ Matched.handler.ok
     /\ Matched.handler.status_code = "PermanentRedirect") =>
        /\ pc \in Terminal => Answered
        /\ written = IF Answered THEN << Redirect301(Matched.handler.path) >> ELSE <<>>

C9_Witness ==
    /\ WellFormed /\ Matching # {}
    /\ Matched.resource_type = "REDIRECT"
    /\ Matched.handler = HandlerOk("PermanentRedirect", "https://example.com")
    /\ pc = "Sent"
    /\ written = << [head |-> "HTTP/1.1 301 PERMANENT REDIRECT\r\nLocation: https://example.com\r\nContent-Length: 0\r\n\r\n",
                     body |-> <<>>] >>

\* C10: a connection whose first line is absent, empty or has fewer than two
\* whitespace-separated tokens ends in Drop (or, when the read timeout cannot
\* be set, in the panic before the read): nothing is written, get_resource
\* is not called, and no handler or fallback route is invoked.
C10_MalformedIsDropped ==
    (conn.read = "eof" \/ (conn.read = "line" /\ Len(RequestParts) < 2)) =>
        /\ written = <<>>
        /\ lookups = 0
        /\ calls = <<>>
        /\ stack = <<>>
        /\ pc \in {"handle_request", IF read_timeout = 0 THEN "Panicked" ELSE "Drop"}

C10_Witness ==
    /\ conn = ReadLine(<<" ", "GET", "/a">>)
    /\ Len(RequestParts) = 1
    /\ IsSome(resource_404)
    /\ pc = "Drop"

\* the request line was read and has two tokens, the first of which is not
\* the name of a RequestType
UnknownMethod ==
    /\ conn.read = "line"
    /\ Len(RequestParts) >= 2
    /\ RequestParts[1] \notin {"GET", "POST", "PUT", "DELETE"}

\* C11: a request line whose method token is not GET, POST, PUT or DELETE
\* ends in Drop (or in the panic before the read when the read timeout
\* cannot be set): nothing is written, get_resource is not called and no
\* handler is invoked, also when a route is registered for the path under GET.
C11_UnknownMethodIsDropped ==
    UnknownMethod =>
        /\ written = <<>>
        /\ lookups = 0
        /\ calls = <<>>
        /\ stack = <<>>
        /\ pc \in {"handle_request", IF read_timeout = 0 THEN "Panicked" ELSE "Drop"}

C11_Witness ==
    /\ UnknownMethod
    /\ RequestParts = <<"FOO", "/">>
    /\ \E k \in 1 .. Len(resources) :
          resources[k].request_type = "GET" /\ resources[k].path = "/"
    /\ pc = "Drop"

\* the calls of handle_resource for a registered route that are active or
\* whose handler has been called: the indices into resources
Dispatched ==
    { stack[i].index : i \in { n \in 1 .. Len(stack) : stack[n].origin = "resources" } }
    \cup { calls[i].index : i \in { n \in 1 .. Len(calls) : calls[n].origin = "resources" } }

\* C12: the route dispatched for a request is the first route in
\* registration order whose method and path both equal the request's: a
\* route with the same path under another method is never dispatched, a
\* later route with the same method and path is never dispatched, and with no
\* such route none is dispatched.
C12_FirstMatchWins ==
    WellFormed =>
        /\ \A k \in Dispatched :
              /\ k \in Matching
              /\ \A i \in Matching : k <= i
        /\ (pc \in Terminal /\ Matching # {}) => Dispatched # {}

C12_Witness ==
    /\ WellFormed
    /\ Len(resources) = 2
    /\ Matching = {1, 2}
    /\ resources[1].resource_type # resources[2].resource_type
    /\ Dispatched = {1}
    /\ pc = "Sent"

C12_WitnessOtherMethod ==
    /\ WellFormed
    /\ Len(resources) = 2
    /\ resources[1].path = resources[2].path
    /\ Matching = {2}
    /\ Dispatched = {2}
    /\ pc = "Sent"

\* C13: handle_request passes at most one buffer to write_all: it ends
\* with one write (which succeeded or failed) or with nothing written, and
\* after the write no call is active and no step of the dispatch is left.
C13_AtMostOneWrite ==
    /\ Len(written) <= 1
    /\ written # <<>> => (pc \in {"Sent", "WriteFailed"} /\ stack = <<>>
                            /\ ~ENABLED NextDispatch)
    /\ pc \in {"Sent", "WriteFailed"} => Len(written) = 1
    /\ pc \in {"Drop", "Panicked", "StackOverflow"} => written = <<>>

C13_Witness ==
    /\ pc = "WriteFailed"
    /\ Len(written) = 1
    /\ Len(calls) >= 2
    /\ IsSome(resource_404)
    /\ IsSome(resource_500)

\* C14: during one request no handler is called twice: the calls of
\* Resource::handle are of pairwise different routes.
C14_HandlerCalledAtMostOnce ==
    \A i, j \in 1 .. Len(calls) : calls[i] = calls[j] => i = j

\* the calls of the handlers of the NotFoundRoute and of the ErrorRoute
FallbackCalls == { i \in 1 .. Len(calls) : calls[i].origin # "resources" }

\* C15: the dispatch of a request never runs into unbounded recursion, and
\* at most one fallback route is ever consulted: after the NotFoundRoute or
\* the ErrorRoute has been dispatched, no handler of a fallback route is
\* called again.
C15_FallbackBounded ==
    /\ pc # "StackOverflow"
    /\ Cardinality(FallbackCalls) <= 1

\* the handler of the route succeeds and names a file that the encoder of
\* the route's kind cannot read
Unreadable(resource) ==
    /\ resource.handler.ok
    /\ \/ resource.resource_type = "HTML" /\ ~IsSome(FsReadToString(resource.handler.path))
       \/ resource.resource_type = "IMAGE" /\ ~IsSome(FsRead(resource.handler.path))

\* C16: a request matching a route whose handler returns Err, with an
\* ErrorRoute registered whose handler returns Err too or whose file cannot
\* be read, is answered by one write of exactly
\* "HTTP/1.1 500 INTERNAL SERVER ERROR\r\nContent-Length: 0\r\n\r\n".
C16_FailingErrorRouteGivesBuiltIn500 ==
    (/\ WellFormed /\ Matching # {} /\ ~Matched.handler.ok
     /\ IsSome(resource_500)
     /\ (~Unwrap(resource_500).handler.ok \/ Unreadable(Unwrap(resource_500)))) =>
        /\ pc \in Terminal => Answered
        /\ written = IF Answered
                     THEN << [head |-> "HTTP/1.1 500 INTERNAL SERVER ERROR\r\nContent-Length: 0\r\n\r\n",
                              body |-> <<>>] >>
                     ELSE <<>>

\* C17: a well-formed request that matches no registered route, with the
\* NotFoundRoute absent, or registered with a handler that returns Err or
\* with a file that cannot be read, is answered by one write of exactly
\* "HTTP/1.1 404 NOT FOUND\r\nContent-Length: 0\r\n\r\n".
C17_FailingNotFoundRouteGivesBuiltIn404 ==
    (/\ WellFormed /\ Matching = {}
     /\ \/ resource_404 = None
        \/ IsSome(resource_404)
           /\ (~Unwrap(resource_404).handler.ok \/ Unreadable(Unwrap(resource_404)))) =>
        /\ pc \in Terminal => Answered
        /\ written = IF Answered
                     THEN << [head |-> "HTTP/1.1 404 NOT FOUND\r\nContent-Length: 0\r\n\r\n",
                              body |-> <<>>] >>
                     ELSE <<>>

\* C18: a request matching a page-kind or binary-kind route whose handler
\* returns a Response whose file cannot be read goes to the not-found path
\* with nothing written for the route: the call that follows the route's
\* encoder is handle_resource of the NotFoundRoute when one is registered,
\* and every write comes after the NotFoundRoute's handler was called;
\* without a NotFoundRoute the request is answered by one write of exactly
\* "HTTP/1.1 404 NOT FOUND\r\nContent-Length: 0\r\n\r\n".
C18_MissingFileGoesToNotFound ==
    (WellFormed /\ Matching # {} /\ Unreadable(Matched)) =>
        /\ Len(calls) >= 1 => calls[1].origin = "resources"
        /\ Len(stack) >= 2 =>
              /\ stack[2].fn = Encoder(Matched.resource_type)
              /\ stack[2].path = Matched.handler.path
        /\ IF IsSome(resource_404)
           THEN /\ Len(stack) >= 3 =>
                      stack[3] = Frame("handle_resource", "resource_404", 0,
                                       resource_404, "", "")
                /\ pc \in Terminal =>
                      /\ Len(calls) >= 2
                      /\ calls[2] = [origin |-> "resource_404", index |-> 0]
           ELSE /\ Len(stack) >= 3 =>
                      stack = << stack[1], stack[2],
                                 Frame("handle_not_found", "", 0, None, "", "") >>
                /\ Len(calls) <= 1
                /\ pc \in Terminal => Answered
                /\ written = IF Answered
                             THEN << [head |-> "HTTP/1.1 404 NOT FOUND\r\nContent-Length: 0\r\n\r\n",
                                      body |-> <<>>] >>
                             ELSE <<>>

C18_Witness ==
    /\ WellFormed /\ Matching # {} /\ Unreadable(Matched)
    /\ Matched.resource_type = "IMAGE"
    /\ resource_404 = Some(Resource("GET", "/a", "HTML", HandlerOk("NotFound", "404.html")))
    /\ pc = "Sent"
    /\ written = << [head |-> "HTTP/1.1 404 NOT FOUND\r\nContent-Length: 3\r\n\r\n",
                     body |-> <<52, 48, 52>>] >>

C18_WitnessBuiltIn ==
    /\ WellFormed /\ Matching # {} /\ Unreadable(Matched)
    /\ Matched.resource_type = "HTML"
    /\ Matched.handler.path = "test.jpg"
    /\ resource_404 = None
    /\ IsSome(resource_500)
    /\ pc = "Sent"

(***************************************************************************)
(* Properties of App::run (checked under Spec)                             *)
(***************************************************************************)

\* the accept loop has been left by the break on the stop flag
LoopExited == pc_main \in {"drop", "join", "returned", "drop_panicked"}

\* C19: in App::run the stop flag is read only after the job of the
\* connection accepted in the same iteration has been submitted; every
\* accepted connection, also one accepted with the flag already set, is
\* submitted to the pool (execute does not fail) and has been answered when
\* run is over.
C19_AcceptedIsDispatchedBeforeStop ==
    /\ pc_main = "check_stop" => submitted = accepted
    /\ pc_main = "execute" => submitted = accepted - 1
    /\ pc_main # "aborted"
    /\ LoopExited => (has_stop_flag /\ stop_flag /\ submitted = accepted)
    /\ PoolDropped => \A j \in 1 .. accepted : done[j] = "returned"

\* C19, the order alone: the flag is read only after the submission, and a
\* loop that was left has submitted every connection it accepted
C19_SubmitBeforeStopCheck ==
    /\ pc_main = "check_stop" => submitted = accepted
    /\ LoopExited => (has_stop_flag /\ stop_flag /\ submitted = accepted)

\* C20: App::run is over only after every job it submitted has run to
\* completion: when control has left run after the break on the stop flag,
\* no job is left in the queue or unfinished, and every worker has been
\* joined and has ended.
C20_RunDrainsJobs ==
    PoolDropped =>
        /\ \A j \in 1 .. submitted : done[j] = "returned"
        /\ queue = <<>>
        /\ \A k \in 1 .. Len(workers) :
              ~workers[k].thread /\ wstate[workers[k].id] = "exited"

\* C21: a fault while one connection is processed stays with that
\* connection: whatever jobs have panicked, execute does not fail for a
\* later connection, run is not ended by a panic, and once the pool is
\* dropped and no worker is left every job that did not panic itself has
\* been run to its end.
C21_FaultContained ==
    /\ pc_main # "aborted"
    /\ pc_main # "drop_panicked"
    /\ (PoolDropped /\ ~ReceiverAlive) =>
          \A j \in 1 .. submitted : done[j] \in {"returned", "panicked"}

(***************************************************************************)
(* More properties of the request dispatch (checked under SpecDispatch)    *)
(***************************************************************************)

\* C22: when the matched route's handler returns Err and the handler of a
\* registered ErrorRoute returns Ok, the ErrorRoute's Response is encoded by
\* the encoder of the ErrorRoute's own resource type, whatever the resource
\* type of the route that failed.
C22_ErrorRouteEncodedByOwnKind ==
    (/\ WellFormed /\ Matching # {} /\ ~Matched.handler.ok
     /\ IsSome(resource_500) /\ Unwrap(resource_500).handler.ok
     /\ Len(stack) >= 2) =>
        /\ stack[2].fn = Encoder(Unwrap(resource_500).resource_type)
        /\ stack[2].path = Unwrap(resource_500).handler.path

\* the route whose handler was called last, and what that handler returned
LastCalled ==
    LET c == calls[Len(calls)]
    IN  CASE c.origin = "resources" -> resources[c.index]
          [] c.origin = "resource_404" -> Unwrap(resource_404)
          [] c.origin = "resource_500" -> Unwrap(resource_500)

\* C23: every reply written by handle_html, handle_image or handle_redirect
\* starts with the status line of the status code in the Response returned by
\* the handler called last, a successful one, whatever the kind of the route
\* and whether it was matched or reached as a fallback.
C23_StatusLineFromResponse ==
    [][ (pc \in {"handle_html", "handle_image", "handle_redirect"} /\ written' # written) =>
           LET h == Handle(LastCalled)
               w == written'[Len(written')]
           IN  /\ h.ok
               /\ Top.status = h.status_code
               /\ w.head \in
                    { StatusLine(h.status_code) \o "\r\nContent-Length: "
                         \o ToString(Len(w.body)) \o "\r\n\r\n",
                      StatusLine(h.status_code) \o "\r\nLocation: " \o h.path
                         \o "\r\nContent-Length: 0\r\n\r\n" } ]_vars

C23_Witness ==
    /\ WellFormed /\ Matching # {}
    /\ Matched = Resource("GET", "/", "REDIRECT", HandlerOk("OK", "test.html"))
    /\ pc = "Sent"
    /\ written = << [head |-> "HTTP/1.1 200 OK\r\nLocation: test.html\r\nContent-Length: 0\r\n\r\n",
                     body |-> <<>>] >>

C23_WitnessFallback ==
    /\ WellFormed /\ Matching = {}
    /\ resource_404 = Some(Resource("GET", "/a", "REDIRECT",
                                    HandlerOk("InternalServerError", "500.html")))
    /\ pc = "Sent"
    /\ written = << [head |-> "HTTP/1.1 500 INTERNAL SERVER ERROR\r\nLocation: 500.html\r\nContent-Length: 0\r\n\r\n",
                     body |-> <<>>] >>

\* the locators and file names the handlers return
Locators == { h.path : h \in { r \in HandlerResults : r.ok } }

\* C24: in every response written, the Content-Length header is the number
\* of bytes of the body that follows the blank line: the bytes of the file
\* for page and binary kinds, and 0 with no body for redirects and for the
\* built-in 404 and 500 replies.
C24_ContentLengthIsBodyLength ==
    \A i \in 1 .. Len(written) :
        LET w == written[i] IN
        /\ w.body = <<>> \/ \E p \in DOMAIN Files : w.body = Files[p]
        /\ \E s \in StatusCode :
              \/ w.head = StatusLine(s) \o "\r\nContent-Length: "
                             \o ToString(Len(w.body)) \o "\r\n\r\n"
              \/ /\ w.body = <<>>
                 /\ \E L \in Locators :
                       w.head = StatusLine(s) \o "\r\nLocation: " \o L
                                   \o "\r\nContent-Length: 0\r\n\r\n"

C24_Witness ==
    /\ WellFormed /\ Matching # {}
    /\ Matched.resource_type = "HTML"
    /\ pc = "Sent"
    /\ written = << [head |-> "HTTP/1.1 200 OK\r\nContent-Length: 4\r\n\r\n",
                     body |-> <<60, 195, 169, 62>>] >>

C24_WitnessBinary ==
    /\ WellFormed /\ Matching # {}
    /\ Matched.resource_type = "IMAGE"
    /\ pc = "Sent"
    /\ written = << [head |-> "HTTP/1.1 200 OK\r\nContent-Length: 3\r\n\r\n",
                     body |-> <<255, 216, 255>>] >>

(***************************************************************************)
(* More properties of the ThreadPool (checked under Spec and SpecFair)     *)
(***************************************************************************)

\* C25: under fair scheduling, once drop has dropped the sender and joins
\* the workers, every worker eventually observes the closed, empty channel
\* and exits, and the join loop eventually returns.
C25_WorkersExitAndJoinReturns ==
    (pc_main = "join") ~>
        (/\ pc_main = "returned"
         /\ \A k \in 1 .. Len(workers) : wstate[workers[k].id] = "exited")

\* C25, the blocking alone: once the sender is dropped no worker thread stays
\* blocked on the mutex or in recv, every worker thread ends
C25_NoWorkerBlockedForever ==
    (sender = "dropped") ~> (\A w \in WorkerIds : ~ThreadAlive(w))

\* C26: storing true in the stop flag moves App::run nowhere: a run blocked
\* in accept stays there until accept returns (a connection or an error);
\* the loop is left only by the break that follows a load of a set flag
\* after the iteration's accept, and a set flag that is loaded always breaks;
\* with no flag, or a flag that was never set, the loop is never left.
C26_StopFlagReadAfterAccept ==
    /\ [](LoopExited => (has_stop_flag /\ stop_flag))
    /\ [][ /\ stop_flag' # stop_flag => pc_main' = pc_main
           /\ (pc_main = "accept" /\ pc_main' # pc_main) =>
                 pc_main' \in {"execute", "check_stop"}
           /\ (pc_main # "drop" /\ pc_main' = "drop") =>
                 (pc_main = "check_stop" /\ has_stop_flag /\ stop_flag)
           /\ (pc_main = "check_stop" /\ pc_main' # pc_main) =>
                 pc_main' = IF has_stop_flag /\ stop_flag THEN "drop" ELSE "accept"
           /\ LoopExited => accepted' = accepted ]_vars

C26_Witness ==
    /\ has_stop_flag /\ stop_flag
    /\ pc_main = "accept"
    /\ accepted >= 1

C26_WitnessExit ==
    /\ has_stop_flag /\ stop_flag
    /\ pc_main = "returned"
    /\ accepted = 0

\* C27: ThreadPool::execute never waits for the workers: whenever run is
\* at pool.execute the call can be completed at once, and while a Receiver
\* exists it appends the job to the queue and returns, however many jobs
\* are queued and however many workers are busy.
C27_ExecuteNeverBlocks ==
    /\ [](pc_main = "execute" => ENABLED Execute)
    /\ [][ (pc_main = "execute" /\ pc_main' # pc_main /\ ReceiverAlive) =>
              /\ pc_main' = "check_stop"
              /\ queue' = Append(queue, submitted + 1)
              /\ submitted' = submitted + 1 ]_vars

C27_Witness ==
    /\ size = 2
    /\ \A w \in {0, 1} : wstate[w] = "job"
    /\ Len(queue) >= 1
    /\ submitted = 3
    /\ pc_main = "check_stop"

\* the worker threads that have a job: received and about to be called, or
\* being executed
Busy == { w \in WorkerIds : wstate[w] \in {"received", "job"} }

\* the number of places a job is at: in the queue, or received by a worker
Places(j) ==
    Cardinality({ i \in 1 .. Len(queue) : queue[i] = j })
    + Cardinality({ w \in WorkerIds : wjob[w] = j })

\* C28: at most `size` jobs are being executed at any time, by different
\* workers, one job per worker; every submitted job that is neither being
\* executed nor finished waits in the queue.
C28_AtMostSizeJobsRunning ==
    /\ Cardinality(Busy) <= size
    /\ \A w \in WorkerIds : (w \in Busy) <=> (wjob[w] # 0)
    /\ \A w \in Busy : wjob[w] \in 1 .. submitted /\ done[wjob[w]] = "no"
    /\ \A v, w \in Busy : wjob[v] = wjob[w] => v = w
    /\ \A j \in 1 .. submitted : Places(j) = IF done[j] = "no" THEN 1 ELSE 0
    /\ \A i \in 1 .. Len(queue) : queue[i] \in 1 .. submitted

C28_Witness ==
    /\ size = 1
    /\ Busy = {0}
    /\ Len(queue) = 2
    /\ submitted = 3

\* C29: a worker holds the mutex of the Receiver only while it is in recv,
\* never while it executes a job, so that another worker can dequeue while a
\* job runs.
C29_LockNotHeldDuringJob ==
    /\ \A w \in WorkerIds : wstate[w] = "job" => lock_holder # w
    /\ lock_holder # NoThread => wstate[lock_holder] = "recv"
    /\ \A w \in WorkerIds : wstate[w] = "recv" => lock_holder = w

C29_Witness ==
    /\ size = 2
    /\ wstate[0] = "job" /\ wstate[1] = "job"
    /\ wjob[0] = 1 /\ wjob[1] = 2
    /\ lock_holder = NoThread

C29_WitnessDequeue ==
    /\ size = 2
    /\ wstate[0] = "job" /\ done[wjob[0]] = "no"
    /\ wstate[1] = "recv" /\ lock_holder = 1
    /\ queue # <<>>

\* the worker threads that were ended by the panic of a job
Panicked == { w \in WorkerIds : wstate[w] = "panicked" }

\* C30: the panic of a job never leaves the mutex held or poisoned: the
\* mutex is only ever held by a live worker, and while fewer workers have
\* been ended by panics than the pool has, execute does not fail and, once
\* the sender is dropped and the remaining workers have exited, every
\* submitted job has been executed.
C30_PanicDoesNotPoison ==
    /\ lock_holder # NoThread => ThreadAlive(lock_holder)
    /\ (PoolConstructed /\ Cardinality(Panicked) < size) =>
          /\ pc_main # "aborted"
          /\ (sender = "dropped" /\ ~ReceiverAlive) =>
                \A j \in 1 .. submitted : runs[j] = 1 /\ done[j] # "no"

C30_Witness ==
    /\ size = 2
    /\ Cardinality(Panicked) = 1
    /\ sender = "dropped" /\ ~ReceiverAlive
    /\ submitted = 3
    /\ done = [j \in JobIds |-> IF j = 1 THEN "panicked" ELSE "returned"]

\* job j has been taken out of the channel by a worker
Taken(j) == j <= submitted /\ \A i \in 1 .. Len(queue) : queue[i] # j

\* job() has been called for job j
Started(j) == runs[j] >= 1

\* C31 as stated: if job A is submitted before job B, then A has been taken
\* from the queue and has started executing before B is taken.
C31_StartedBeforeNextTaken ==
    \A a, b \in JobIds : (a < b /\ Taken(b)) => (Taken(a) /\ Started(a))

\* C31 as amended: jobs are taken from the queue in the order of their
\* submission: the queue holds the jobs not yet taken in that order, and if
\* job A is submitted before job B, then A is taken before B is taken; in
\* what order the jobs taken start and complete is not constrained.
C31_DequeuedInFifoOrder ==
    /\ \A i, k \in 1 .. Len(queue) : i < k => queue[i] < queue[k]
    /\ \A a, b \in JobIds : (a < b /\ Taken(b)) => Taken(a)

C31_Witness ==
    /\ size = 2
    /\ wstate[0] = "received" /\ wjob[0] = 1 /\ ~Started(1)
    /\ done[2] = "returned"
    /\ Taken(3) /\ Started(3) /\ wjob[1] = 3

====
